---- MODULE Spec2Model ----
(***************************************************************************)
(* A model of clever_flight_routines/__init__.py: takeoff, reach_point,    *)
(* create_route, read_route and fly_route, together with the gateway       *)
(* (get_telemetry / navigate), the externally controlled trigger pair and  *)
(* the route file they act on.                                             *)
(*                                                                         *)
(* Conventions                                                             *)
(*  - pc is the source line about to be executed by the innermost active   *)
(*    function; 0 means no routine is active.                              *)
(*  - Lengths are integers in units of 0.1 m (TOLERANCE = 0.2 m = 2).      *)
(*    The IEEE specials a float argument can take are the reserved values  *)
(*    NaN and Inf, outside the grid.                                       *)
(*  - A distance, math.sqrt(s), is represented exactly by its radicand s;  *)
(*    comparing it with a length t compares s with t*t (both sides are     *)
(*    non-negative).                                                       *)
(*  - Text is a sequence of one-character strings.                         *)
(***************************************************************************)
EXTENDS Integers, Sequences, FiniteSets, TLC

(***************************************************************************)
(* Bounds of the model                                                     *)
(***************************************************************************)
\* rate.sleep() calls one run may make
MaxTicks == 2
\* set/clear operations the external controller may make on the triggers
MaxToggles == 4
\* longest route handed to fly_route
MaxRoute == 2

(***************************************************************************)
(* Module globals (lines 30-34) and float specials                         *)
(***************************************************************************)
TOLERANCE == 2

NaN == -1000

Inf == 0 - NaN

isnan(v) == v = NaN

isinf(v) == v = Inf \/ v = 0 - Inf

Abs(v) == IF v < 0 THEN 0 - v ELSE v

(***************************************************************************)
(* Input domains                                                           *)
(***************************************************************************)
Point(px, py, pz) == [x |-> px, y |-> py, z |-> pz]

\* poses the gateway may report
Poses ==
    { Point(0, 0, 1), Point(2, 0, 1), Point(1, -1, 2), Point(3, 0, 1), Point(0, 0, 4) }

\* targets / route waypoints
Waypoints == { Point(0, 0, 1), Point(2, 0, 2) }

Tolerances == { 1, TOLERANCE }

Heights == { 1, 3 }

\* values of fly_route's z argument: unset (NaN), a finite altitude, infinity
Overrides == { NaN, 5, Inf }

FlightFunctions == { "reach_point", "navigate" }

RECURSIVE SeqsUpTo(_, _)
SeqsUpTo(S, n) ==
    IF n = 0 THEN { <<>> }
    ELSE LET shorter == SeqsUpTo(S, n - 1)
         IN  shorter \cup { Append(s, e) : s \in { t \in shorter : Len(t) = n - 1 }, e \in S }

Routes == SeqsUpTo(Waypoints, MaxRoute)

(***************************************************************************)
(* get_distance (lines 39-40): the radicand of the square root             *)
(***************************************************************************)
get_distance(x1, y1, z1, x2, y2, z2) ==
    IF \E v \in {x1, y1, z1, x2, y2, z2} : isinf(v)
    THEN Inf
    ELSE (x1 - x2) * (x1 - x2) + (y1 - y2) * (y1 - y2) + (z1 - z2) * (z1 - z2)

\* the squared distance compared with the tolerance itself (sqrt forgotten)
DistanceExceeds_nosqrt(radicand, tol) == radicand > tol

\* delta > tolerance, for a distance delta = sqrt(radicand)
DistanceExceeds(radicand, tol) == radicand > tol * tol

(***************************************************************************)
(* Text: float -> text as the csv writer does it (repr) and text -> float  *)
(* as float() does it, on the 0.1 grid                                     *)
(***************************************************************************)
Digits == << "0", "1", "2", "3", "4", "5", "6", "7", "8", "9" >>

DigitChars == { Digits[i] : i \in 1..10 }

DigitChar(d) == Digits[d + 1]

DigitVal(c) == (CHOOSE i \in 1..10 : Digits[i] = c) - 1

RECURSIVE NatStr(_)
NatStr(n) == IF n < 10 THEN << DigitChar(n) >>
             ELSE NatStr(n \div 10) \o << DigitChar(n % 10) >>

\* repr(v) of a float on the grid: sign, integer part, ".", one decimal
repr(v) ==
    (IF v < 0 THEN << "-" >> ELSE << >>)
        \o NatStr(Abs(v) \div 10) \o << "." >> \o << DigitChar(Abs(v) % 10) >>

RECURSIVE NatVal(_)
NatVal(s) == IF s = << >> THEN 0
             ELSE 10 * NatVal(SubSeq(s, 1, Len(s) - 1)) + DigitVal(s[Len(s)])

AllDigits(s) == \A i \in 1..Len(s) : s[i] \in DigitChars

Unsigned(s) == IF s # << >> /\ s[1] \in { "-", "+" } THEN Tail(s) ELSE s

DotAt(s) == IF \E i \in 1..Len(s) : s[i] = "."
            THEN CHOOSE i \in 1..Len(s) : s[i] = "." /\ \A j \in 1..(i - 1) : s[j] # "."
            ELSE Len(s) + 1

IntPart(s) == SubSeq(Unsigned(s), 1, DotAt(Unsigned(s)) - 1)

FracPart(s) == SubSeq(Unsigned(s), DotAt(Unsigned(s)) + 1, Len(Unsigned(s)))

\* float(s) succeeds, for text over the characters the route files of this
\* model are made of (digits, sign, ".", "a", quote characters): [sign]
\* digits [ "." digits ] with a digit somewhere; anything else raises
\* ValueError
float_ok(s) ==
    /\ AllDigits(IntPart(s))
    /\ AllDigits(FracPart(s))
    /\ Len(IntPart(s)) + Len(FracPart(s)) > 0

\* the value of float(s), for text carrying at most one decimal
float(s) ==
    LET mag == 10 * NatVal(IntPart(s))
               + (IF FracPart(s) = << >> THEN 0 ELSE DigitVal(FracPart(s)[1]))
    IN  IF s # << >> /\ s[1] = "-" THEN 0 - mag ELSE mag

(***************************************************************************)
(* csv.writer(delimiter=',', quotechar='"', QUOTE_MINIMAL) (line 77)       *)
(***************************************************************************)
WriterDelimiter == ","

WriterQuotechar == "\""

LineTerminator == << "\r", "\n" >>

NeedsQuote(s) ==
    \E i \in 1..Len(s) : s[i] \in { WriterDelimiter, WriterQuotechar, "\r", "\n" }

RECURSIVE DoubleQuotes(_)
DoubleQuotes(s) ==
    IF s = << >> THEN << >>
    ELSE (IF s[1] = WriterQuotechar THEN << s[1], s[1] >> ELSE << s[1] >>)
             \o DoubleQuotes(Tail(s))

WriterField(s) ==
    IF NeedsQuote(s)
    THEN << WriterQuotechar >> \o DoubleQuotes(s) \o << WriterQuotechar >>
    ELSE s

RECURSIVE JoinFields(_)
JoinFields(fs) ==
    IF fs = << >> THEN << >>
    ELSE IF Len(fs) = 1 THEN WriterField(fs[1])
    ELSE WriterField(fs[1]) \o << WriterDelimiter >> \o JoinFields(Tail(fs))

\* a row that repeats y in the place of z
writerow_xyy(t) == JoinFields(<< repr(t.x), repr(t.y), repr(t.y) >>) \o LineTerminator

\* csv_writer.writerow([telem.x, telem.y, telem.z]) (line 85): the text
\* appended to the file
writerow(t) == JoinFields(<< repr(t.x), repr(t.y), repr(t.z) >>) \o LineTerminator

(***************************************************************************)
(* csv.reader(delimiter=',', quotechar='|') (line 103): the parser states  *)
(* of the csv module.  A row ends at "\n" (or at a "\r" that another       *)
(* record follows, as under universal newlines) unless inside quotes.      *)
(***************************************************************************)
\* a reader that does not use the writer's delimiter
ReaderDelimiter_semicolon == ";"

ReaderDelimiter == ","

ReaderQuotechar == "|"

IsNewline(c) == c \in { "\r", "\n" }

\* one character through the parser: the next << state, field, fields >>
ReaderStep(st, field, fields, c) ==
    CASE st \in { "START_RECORD", "START_FIELD" } ->
            IF IsNewline(c)
            THEN << "EAT_CRNL", << >>,
                    IF st = "START_RECORD" THEN fields ELSE Append(fields, field) >>
            ELSE IF c = ReaderQuotechar THEN << "IN_QUOTED_FIELD", field, fields >>
            ELSE IF c = ReaderDelimiter THEN << "START_FIELD", << >>, Append(fields, field) >>
            ELSE << "IN_FIELD", Append(field, c), fields >>
      [] st = "IN_FIELD" ->
            IF IsNewline(c) THEN << "EAT_CRNL", << >>, Append(fields, field) >>
            ELSE IF c = ReaderDelimiter THEN << "START_FIELD", << >>, Append(fields, field) >>
            ELSE << "IN_FIELD", Append(field, c), fields >>
      [] st = "IN_QUOTED_FIELD" ->
            IF c = ReaderQuotechar THEN << "QUOTE_IN_QUOTED_FIELD", field, fields >>
            ELSE << "IN_QUOTED_FIELD", Append(field, c), fields >>
      [] st = "QUOTE_IN_QUOTED_FIELD" ->
            IF c = ReaderQuotechar THEN << "IN_QUOTED_FIELD", Append(field, c), fields >>
            ELSE IF c = ReaderDelimiter THEN << "START_FIELD", << >>, Append(fields, field) >>
            ELSE IF IsNewline(c) THEN << "EAT_CRNL", << >>, Append(fields, field) >>
            ELSE << "IN_FIELD", Append(field, c), fields >>
      [] OTHER -> << "EAT_CRNL", field, fields >>

RECURSIVE ReadRows(_, _, _, _, _)
ReadRows(d, i, st, field, fields) ==
    IF i > Len(d)
    THEN IF st = "START_RECORD" THEN << >>
         ELSE IF st = "EAT_CRNL" THEN << fields >>
         ELSE << Append(fields, field) >>
    ELSE IF st = "EAT_CRNL" /\ ~IsNewline(d[i])
    THEN << fields >> \o ReadRows(d, i, "START_RECORD", << >>, << >>)
    ELSE LET n == ReaderStep(st, field, fields, d[i])
         IN  IF d[i] = "\n" /\ n[1] = "EAT_CRNL"
             THEN << n[3] >> \o ReadRows(d, i + 1, "START_RECORD", << >>, << >>)
             ELSE ReadRows(d, i + 1, n[1], n[2], n[3])

\* the rows csv_reader yields for a file's text
csv_reader(d) == ReadRows(d, 1, "START_RECORD", << >>, << >>)

\* x, y, z = row; float(x), float(y), float(z) (lines 105-109) succeed
row_ok(row) == Len(row) = 3 /\ \A i \in 1..3 : float_ok(row[i])

\* the dict appended for a row (lines 106-110)
row_point(row) == Point(float(row[1]), float(row[2]), float(row[3]))

(***************************************************************************)
(* State                                                                   *)
(***************************************************************************)
VARIABLES
    pc,               \* source line about to run; 0: no routine active
    routine,          \* the routine the caller invoked
    outcome,          \* "none", "running", "returned" or "raised"
    trace,            \* the calls made so far: gateway, sleeps, file writes
    height, tolerance, start, climb,          \* takeoff / reach_point locals
    target, telem, delta,
    add_trigger, stop_trigger, toggles,       \* the threading.Event pair
    file,                                     \* the route file
    rows, imported_points, result,            \* read_route
    route, idx, z, flight_function, z_result, \* fly_route
    obs                                       \* what create_route's polls saw

pollerVars == << height, tolerance, start, climb, target, telem, delta >>

triggerVars == << add_trigger, stop_trigger, toggles >>

readerVars == << rows, imported_points, result >>

playerVars == << route, idx, z, flight_function, z_result >>

vars == << pc, routine, outcome, trace, pollerVars, triggerVars, file,
           readerVars, playerVars, obs >>

Event(o, a) == [op |-> o, arg |-> a]

Ops(o) == SelectSeq(trace, LAMBDA e : e.op = o)

\* rate.sleep() calls made so far
Ticks == Len(Ops("rate.sleep"))

NoFile == [exists |-> FALSE, data |-> << >>]

None == [tag |-> "None", val |-> << >>]

Unset == [tag |-> "unset", val |-> << >>]

NoObs == [add |-> "none", rows_in_hold |-> 0, rows_since_release |-> 0,
          stop_sleeps |-> 0, stop_steps |-> 0,
          stop_rows |-> 0, stop_seen |-> FALSE, seen_rows |-> 0,
          hold_ticks |-> 0, press_ok |-> TRUE]

Init ==
    /\ pc = 0
    /\ routine = "none"
    /\ outcome = "none"
    /\ trace = << >>
    /\ height = 0 /\ tolerance = 0 /\ climb = 0 /\ delta = 0
    /\ start = Point(0, 0, 0) /\ target = Point(0, 0, 0) /\ telem = Point(0, 0, 0)
    /\ add_trigger = FALSE /\ stop_trigger = FALSE /\ toggles = 0
    /\ file = NoFile
    /\ rows = << >> /\ imported_points = << >> /\ result = Unset
    /\ route = << >> /\ idx = 0 /\ z = NaN /\ flight_function = "reach_point"
    /\ z_result = NaN
    /\ obs = NoObs

Fresh == pc = 0 /\ outcome = "none"

\* the routine ends normally (falls off its end or executes return)
Return == pc' = 0 /\ outcome' = "returned"

NavigateEvent(nx, ny, nz, arm) ==
    Event("navigate", [x |-> nx, y |-> ny, z |-> nz, auto_arm |-> arm])

(***************************************************************************)
(* takeoff (lines 43-54)                                                   *)
(***************************************************************************)
call_takeoff ==
    /\ Fresh
    /\ \E h \in Heights, t \in Tolerances : height' = h /\ tolerance' = t
    /\ routine' = "takeoff" /\ outcome' = "running" /\ pc' = 46
    /\ UNCHANGED << trace, start, climb, target, telem, delta, triggerVars, file,
                    readerVars, playerVars, obs >>

\* start = get_telemetry(); climb = 0.
takeoff_46 ==
    /\ pc = 46
    /\ \E p \in Poses :
          /\ start' = p
          /\ trace' = Append(trace, Event("get_telemetry", p))
    /\ climb' = 0
    /\ pc' = 48
    /\ UNCHANGED << routine, outcome, height, tolerance, target, telem, delta,
                    triggerVars, file, readerVars, playerVars, obs >>

takeoff_navigate == NavigateEvent(start.x, start.y, start.z + height, TRUE)

\* navigate(x=start.x, y=start.y, z=start.z+height, ..., auto_arm=True)
takeoff_48 ==
    /\ pc = 48
    /\ trace' = Append(trace, takeoff_navigate)
    /\ pc' = 50
    /\ UNCHANGED << routine, outcome, pollerVars, triggerVars, file, readerVars,
                    playerVars, obs >>

\* abs(climb - height) > tolerance
takeoff_continues(c, h, t) == Abs(c - h) > t

takeoff_50 ==
    /\ pc = 50
    /\ pc' = IF takeoff_continues(climb, height, tolerance) THEN 51 ELSE 54
    /\ UNCHANGED << routine, outcome, trace, pollerVars, triggerVars, file,
                    readerVars, playerVars, obs >>

\* climb = abs(get_telemetry().z - start.z)
takeoff_51 ==
    /\ pc = 51
    /\ \E p \in Poses :
          /\ climb' = Abs(p.z - start.z)
          /\ trace' = Append(trace, Event("get_telemetry", p))
    /\ pc' = 53
    /\ UNCHANGED << routine, outcome, height, tolerance, start, target, telem, delta,
                    triggerVars, file, readerVars, playerVars, obs >>

takeoff_53 ==
    /\ pc = 53
    /\ Ticks < MaxTicks
    /\ trace' = Append(trace, Event("rate.sleep", 0))
    /\ pc' = 50
    /\ UNCHANGED << routine, outcome, pollerVars, triggerVars, file, readerVars,
                    playerVars, obs >>

takeoff_54 ==
    /\ pc = 54
    /\ Return
    /\ UNCHANGED << routine, trace, pollerVars, triggerVars, file, readerVars,
                    playerVars, obs >>

(***************************************************************************)
(* reach_point (lines 57-69)                                               *)
(***************************************************************************)
call_reach_point ==
    /\ Fresh
    /\ \E w \in Waypoints, t \in Tolerances : target' = w /\ tolerance' = t
    /\ routine' = "reach_point" /\ outcome' = "running" /\ pc' = 60
    /\ UNCHANGED << trace, height, start, climb, telem, delta, triggerVars, file,
                    readerVars, playerVars, obs >>

\* telem = get_telemetry()
reach_point_60 ==
    /\ pc = 60
    /\ \E p \in Poses :
          /\ telem' = p
          /\ trace' = Append(trace, Event("get_telemetry", p))
    /\ pc' = 61
    /\ UNCHANGED << routine, outcome, height, tolerance, start, climb, target, delta,
                    triggerVars, file, readerVars, playerVars, obs >>

\* reach_point asking for auto-arm as takeoff does
reach_point_navigate_arm == NavigateEvent(target.x, target.y, target.z, TRUE)

reach_point_navigate == NavigateEvent(target.x, target.y, target.z, FALSE)

\* navigate(x=x, y=y, z=z, ...); delta = get_distance(x, y, z, telem...)
reach_point_61 ==
    /\ pc = 61
    /\ trace' = Append(trace, reach_point_navigate)
    /\ delta' = get_distance(target.x, target.y, target.z, telem.x, telem.y, telem.z)
    /\ pc' = 64
    /\ UNCHANGED << routine, outcome, height, tolerance, start, climb, target, telem,
                    triggerVars, file, readerVars, playerVars, obs >>

\* the loop given up after the first tick (a timeout)
reach_point_continues_timeout(d, t) == d > t * t /\ Ticks < 1

\* the loop never entered (the command sent and forgotten)
reach_point_continues_never(d, t) == FALSE

\* the loop test written with >=
reach_point_continues_ge(d, t) == d >= t * t

\* delta > tolerance
reach_point_continues(d, t) == DistanceExceeds(d, t)

reach_point_64 ==
    /\ pc = 64
    /\ pc' = IF reach_point_continues(delta, tolerance) THEN 65 ELSE 69
    /\ UNCHANGED << routine, outcome, trace, pollerVars, triggerVars, file,
                    readerVars, playerVars, obs >>

\* telem = get_telemetry(); delta = get_distance(...)
reach_point_65 ==
    /\ pc = 65
    /\ \E p \in Poses :
          /\ telem' = p
          /\ delta' = get_distance(target.x, target.y, target.z, p.x, p.y, p.z)
          /\ trace' = Append(trace, Event("get_telemetry", p))
    /\ pc' = 68
    /\ UNCHANGED << routine, outcome, height, tolerance, start, climb, target,
                    triggerVars, file, readerVars, playerVars, obs >>

reach_point_68 ==
    /\ pc = 68
    /\ Ticks < MaxTicks
    /\ trace' = Append(trace, Event("rate.sleep", 0))
    /\ pc' = 64
    /\ UNCHANGED << routine, outcome, pollerVars, triggerVars, file, readerVars,
                    playerVars, obs >>

\* back to the caller: fly_route's line 120, or the outside caller
reach_point_69 ==
    /\ pc = 69
    /\ IF routine = "fly_route"
       THEN pc' = 120 /\ UNCHANGED outcome
       ELSE Return
    /\ UNCHANGED << routine, trace, pollerVars, triggerVars, file, readerVars,
                    playerVars, obs >>

(***************************************************************************)
(* create_route (lines 72-92) and the external controller of the triggers  *)
(***************************************************************************)
\* every statement create_route executes while stop_trigger is set is counted
Stepped(o) == [o EXCEPT !.stop_steps = IF stop_trigger /\ @ < 8 THEN @ + 1 ELSE @]

Slept(o) ==
    [Stepped(o) EXCEPT !.stop_sleeps = IF stop_trigger THEN @ + 1 ELSE @,
                       !.hold_ticks = IF add_trigger /\ @ < 2 THEN @ + 1 ELSE @]

SawStop(o, set) == [Stepped(o) EXCEPT !.stop_seen = @ \/ set]

SawAdd(o, set) ==
    [Stepped(o) EXCEPT !.add = IF set THEN "set" ELSE "clear",
                       !.rows_since_release = IF set THEN @ ELSE 0]

Wrote(o) ==
    [Stepped(o) EXCEPT !.rows_in_hold = @ + 1, !.rows_since_release = @ + 1,
                       !.stop_rows = IF stop_trigger THEN @ + 1 ELSE @,
                       !.seen_rows = IF o.stop_seen THEN @ + 1 ELSE @]

call_create_route ==
    /\ Fresh
    /\ add_trigger' \in BOOLEAN /\ stop_trigger' \in BOOLEAN
    /\ routine' = "create_route" /\ outcome' = "running" /\ pc' = 73
    /\ UNCHANGED << trace, pollerVars, toggles, file, readerVars, playerVars, obs >>

\* csv_file = open(filename, mode='w+'): the file is created or truncated
create_route_73 ==
    /\ pc = 73
    /\ file' = [exists |-> TRUE, data |-> << >>]
    /\ trace' = Append(trace, Event("open", "w+"))
    /\ obs' = Stepped(obs)
    /\ pc' = 78
    /\ UNCHANGED << routine, outcome, pollerVars, triggerVars, readerVars, playerVars >>

\* create_route_branch without the wait for the release of add_trigger:
\* after a capture the recorder goes straight back to the outer loop
create_route_branch_level(line, set) ==
    CASE line = 78 -> IF set THEN 92 ELSE 79
      [] line = 79 -> IF set THEN 84 ELSE 80
      [] line = 80 -> IF set THEN 82 ELSE 83
      [] line = 87 -> 78
      [] line = 88 -> IF set THEN 90 ELSE 91

\* create_route_branch with a stop check at line 78 that never ends the
\* recording
create_route_branch_forever(line, set) ==
    CASE line = 78 -> 79
      [] line = 79 -> IF set THEN 84 ELSE 80
      [] line = 80 -> IF set THEN 82 ELSE 83
      [] line = 87 -> IF set THEN 88 ELSE 78
      [] line = 88 -> IF set THEN 90 ELSE 91

\* create_route_branch that goes from an observed press to the release wait
\* without the capture of lines 84-85
create_route_branch_nocapture(line, set) ==
    CASE line = 78 -> IF set THEN 92 ELSE 79
      [] line = 79 -> IF set THEN 87 ELSE 80
      [] line = 80 -> IF set THEN 82 ELSE 83
      [] line = 87 -> IF set THEN 88 ELSE 78
      [] line = 88 -> IF set THEN 90 ELSE 91

\* create_route_branch without the stop check inside the release wait
create_route_branch_deaf(line, set) ==
    CASE line = 78 -> IF set THEN 92 ELSE 79
      [] line = 79 -> IF set THEN 84 ELSE 80
      [] line = 80 -> IF set THEN 82 ELSE 83
      [] line = 87 -> IF set THEN 88 ELSE 78
      [] line = 88 -> 91

\* where control goes from a line that reads a trigger, given what it read
create_route_branch(line, set) ==
    CASE line = 78 -> IF set THEN 92 ELSE 79
      [] line = 79 -> IF set THEN 84 ELSE 80
      [] line = 80 -> IF set THEN 82 ELSE 83
      [] line = 87 -> IF set THEN 88 ELSE 78
      [] line = 88 -> IF set THEN 90 ELSE 91

\* while not stop_trigger.is_set() / if stop_trigger.is_set()
create_route_poll_stop ==
    /\ pc \in { 78, 80, 88 }
    /\ pc' = create_route_branch(pc, stop_trigger)
    /\ obs' = SawStop(obs, stop_trigger)
    /\ UNCHANGED << routine, outcome, trace, pollerVars, triggerVars, file,
                    readerVars, playerVars >>

\* while not add_trigger.is_set() / while add_trigger.is_set()
create_route_poll_add ==
    /\ pc \in { 79, 87 }
    /\ pc' = create_route_branch(pc, add_trigger)
    /\ obs' = SawAdd(obs, add_trigger)
    /\ UNCHANGED << routine, outcome, trace, pollerVars, triggerVars, file,
                    readerVars, playerVars >>

\* rate.sleep() in either wait loop
create_route_sleep ==
    /\ pc \in { 83, 91 }
    /\ Ticks < MaxTicks
    /\ trace' = Append(trace, Event("rate.sleep", 0))
    /\ pc' = IF pc = 83 THEN 79 ELSE 87
    /\ obs' = Slept(obs)
    /\ UNCHANGED << routine, outcome, pollerVars, triggerVars, file, readerVars,
                    playerVars >>

\* telem = get_telemetry()
create_route_84 ==
    /\ pc = 84
    /\ \E p \in Poses :
          /\ telem' = p
          /\ trace' = Append(trace, Event("get_telemetry", p))
    /\ obs' = Stepped(obs)
    /\ pc' = 85
    /\ UNCHANGED << routine, outcome, height, tolerance, start, climb, target, delta,
                    triggerVars, file, readerVars, playerVars >>

\* csv_writer.writerow([telem.x, telem.y, telem.z])
create_route_85 ==
    /\ pc = 85
    /\ file' = [file EXCEPT !.data = @ \o writerow(telem)]
    /\ trace' = Append(trace, Event("writerow", telem))
    /\ obs' = Wrote(obs)
    /\ pc' = 87
    /\ UNCHANGED << routine, outcome, pollerVars, triggerVars, readerVars, playerVars >>

\* the three ways out: return (82, 90) or the end of the function (92)
create_route_return ==
    /\ pc \in { 82, 90, 92 }
    /\ Return
    /\ obs' = Stepped(obs)
    /\ UNCHANGED << routine, trace, pollerVars, triggerVars, file, readerVars,
                    playerVars >>

Recording == routine = "create_route" /\ outcome = "running"

\* the controller thread: add_trigger.set() / .clear(), stop_trigger.set() / .clear()
add_trigger_set ==
    /\ Recording /\ toggles < MaxToggles /\ ~add_trigger
    /\ add_trigger' = TRUE /\ toggles' = toggles + 1
    /\ obs' = [obs EXCEPT !.rows_in_hold = 0, !.hold_ticks = 0,
                          !.press_ok = (obs.add # "set")]
    /\ UNCHANGED << pc, routine, outcome, trace, pollerVars, stop_trigger, file,
                    readerVars, playerVars >>

add_trigger_clear ==
    /\ Recording /\ toggles < MaxToggles /\ add_trigger
    /\ add_trigger' = FALSE /\ toggles' = toggles + 1
    /\ UNCHANGED << pc, routine, outcome, trace, pollerVars, stop_trigger, file,
                    readerVars, playerVars, obs >>

stop_trigger_set ==
    /\ Recording /\ toggles < MaxToggles /\ ~stop_trigger
    /\ stop_trigger' = TRUE /\ toggles' = toggles + 1
    /\ obs' = [obs EXCEPT !.stop_sleeps = 0, !.stop_steps = 0, !.stop_rows = 0,
                          !.stop_seen = FALSE, !.seen_rows = 0]
    /\ UNCHANGED << pc, routine, outcome, trace, pollerVars, add_trigger, file,
                    readerVars, playerVars >>

stop_trigger_clear ==
    /\ Recording /\ toggles < MaxToggles /\ stop_trigger
    /\ stop_trigger' = FALSE /\ toggles' = toggles + 1
    /\ obs' = [obs EXCEPT !.stop_sleeps = 0, !.stop_steps = 0, !.stop_rows = 0,
                          !.stop_seen = FALSE, !.seen_rows = 0]
    /\ UNCHANGED << pc, routine, outcome, trace, pollerVars, add_trigger, file,
                    readerVars, playerVars >>

(***************************************************************************)
(* read_route (lines 95-111)                                               *)
(***************************************************************************)
\* the route file as read_route may find it when nothing in this run wrote it:
\* missing, empty, well-formed, or with a malformed record
FilesFound ==
    { NoFile,
      [exists |-> TRUE, data |-> <<  >>],
      [exists |-> TRUE, data |-> << "0", ".", "1", ",", "0", ".", "2", ",", "0", ".", "3", "\n" >>],
      [exists |-> TRUE, data |-> << "-", "1", ",", "2", ".", "5", ",", "3" >>],
      [exists |-> TRUE, data |-> << "1", ",", "2", ",", "3", "\r", "\n", "0", ".", "5", ",", "0", ",", "2", "\r", "\n" >>],
      [exists |-> TRUE, data |-> << "1", ",", "2", "\n" >>],
      [exists |-> TRUE, data |-> << "a", ",", "1", ",", "2", "\n" >>],
      [exists |-> TRUE, data |-> << "1", ",", "2", ",", "3", "\n", "\n" >>],
      [exists |-> TRUE, data |-> << "1", ",", "2", ",", "3", ",", "4", "\n" >>] }

\* read_route is called first, or after create_route has ended
call_read_route ==
    /\ pc = 0
    /\ \/ outcome = "none" /\ file' \in FilesFound
       \/ routine = "create_route" /\ outcome \in { "returned", "raised" }
          /\ UNCHANGED file
    /\ routine' = "read_route" /\ outcome' = "running" /\ pc' = 96
    /\ UNCHANGED << trace, pollerVars, triggerVars, readerVars, playerVars, obs >>

\* imported_points = []
read_route_96 ==
    /\ pc = 96
    /\ imported_points' = << >>
    /\ pc' = 98
    /\ UNCHANGED << routine, outcome, trace, pollerVars, triggerVars, file, rows,
                    result, playerVars, obs >>

\* imported_points returned on the error path too
read_route_unopened_list(pts) == [tag |-> "list", val |-> pts]

\* the value the function returns when open() raised IOError (lines 99-100):
\* control leaves the try statement and reaches the end of the function
read_route_unopened(pts) == None

\* try: csv_file = open(filename)  except IOError: logging.error(...)
read_route_98 ==
    /\ pc = 98
    /\ IF file.exists
       THEN /\ rows' = csv_reader(file.data)
            /\ pc' = 104
            /\ UNCHANGED << outcome, result >>
       ELSE /\ result' = read_route_unopened(imported_points)
            /\ Return
            /\ UNCHANGED rows
    /\ UNCHANGED << routine, trace, pollerVars, triggerVars, file, imported_points,
                    playerVars, obs >>

\* for row in csv_reader: x, y, z = row; imported_points.append({...})
read_route_104 ==
    /\ pc = 104
    /\ rows # << >>
    /\ row_ok(Head(rows))
    /\ imported_points' = Append(imported_points, row_point(Head(rows)))
    /\ rows' = Tail(rows)
    /\ UNCHANGED << pc, routine, outcome, trace, pollerVars, triggerVars, file,
                    result, playerVars, obs >>

\* the points read before the bad record returned as the route
read_route_fails_partial(pts) == [outcome |-> "returned", result |-> [tag |-> "list", val |-> pts]]

\* how the call ends at a record that cannot be unpacked or converted: the
\* try statement (lines 98-100) covers only open(), so the ValueError of
\* lines 105-109 leaves read_route and nothing is returned
read_route_fails(pts) == [outcome |-> "raised", result |-> Unset]

\* the unpacking or float() raises ValueError, which nothing catches
read_route_ValueError ==
    /\ pc = 104
    /\ rows # << >>
    /\ ~row_ok(Head(rows))
    /\ trace' = Append(trace, Event("raise", "ValueError"))
    /\ pc' = 0
    /\ outcome' = read_route_fails(imported_points).outcome
    /\ result' = read_route_fails(imported_points).result
    /\ UNCHANGED << routine, pollerVars, triggerVars, file, rows, imported_points,
                    playerVars, obs >>

\* return imported_points
read_route_111 ==
    /\ pc = 104
    /\ rows = << >>
    /\ result' = [tag |-> "list", val |-> imported_points]
    /\ Return
    /\ UNCHANGED << routine, trace, pollerVars, triggerVars, file, rows,
                    imported_points, playerVars, obs >>

(***************************************************************************)
(* fly_route (lines 114-120)                                               *)
(***************************************************************************)
call_fly_route ==
    /\ Fresh
    /\ \E r \in Routes, f \in FlightFunctions, o \in Overrides :
          route' = r /\ flight_function' = f /\ z' = o
    /\ idx' = 1
    /\ routine' = "fly_route" /\ outcome' = "running" /\ pc' = 115
    /\ UNCHANGED << trace, pollerVars, triggerVars, file, readerVars, z_result, obs >>

\* for point in route: the loop ends after the last point
fly_route_115 ==
    /\ pc = 115
    /\ IF idx <= Len(route)
       THEN pc' = 116 /\ UNCHANGED outcome
       ELSE Return
    /\ UNCHANGED << routine, trace, pollerVars, triggerVars, file, readerVars,
                    playerVars, obs >>

\* the override tested with math.isinf as well
effective_z_finite(pz, zo) == IF ~isnan(zo) /\ ~isinf(zo) THEN zo ELSE pz

\* z_result = point['z']; if not math.isnan(z): z_result = z
effective_z(pz, zo) == IF ~isnan(zo) THEN zo ELSE pz

fly_route_116 ==
    /\ pc = 116
    /\ z_result' = effective_z(route[idx].z, z)
    /\ pc' = 119
    /\ UNCHANGED << routine, outcome, trace, pollerVars, triggerVars, file,
                    readerVars, route, idx, z, flight_function, obs >>

\* the call with x and y exchanged
FlightEvent_swapped == Event("flight_function", Point(route[idx].y, route[idx].x, z_result))

FlightEvent == Event("flight_function", Point(route[idx].x, route[idx].y, z_result))

\* flight_function(x=point['x'], y=point['y'], z=z_result, ...), with
\* reach_point (tolerance defaulted) or the navigate service as the primitive
fly_route_119 ==
    /\ pc = 119
    /\ IF flight_function = "reach_point"
       THEN /\ target' = Point(route[idx].x, route[idx].y, z_result)
            /\ tolerance' = TOLERANCE
            /\ trace' = Append(trace, FlightEvent)
            /\ pc' = 60
       ELSE /\ trace' = trace \o << FlightEvent,
                   NavigateEvent(route[idx].x, route[idx].y, z_result, FALSE) >>
            /\ pc' = 120
            /\ UNCHANGED << target, tolerance >>
    /\ UNCHANGED << routine, outcome, height, start, climb, telem, delta,
                    triggerVars, file, readerVars, playerVars, obs >>

\* the delay only between two points
settles_between(i, n) == i < n

\* time.sleep(delay) is the last statement of the loop body: it runs after
\* the i-th of n points whatever i is
settles(i, n) == TRUE

\* time.sleep(delay), then the next point
fly_route_120 ==
    /\ pc = 120
    /\ trace' = IF settles(idx, Len(route))
                THEN Append(trace, Event("time.sleep", 0))
                ELSE trace
    /\ idx' = idx + 1
    /\ pc' = 115
    /\ UNCHANGED << routine, outcome, pollerVars, triggerVars, file, readerVars,
                    route, z, flight_function, z_result, obs >>

(***************************************************************************)
(* The gateway: a call returns (the caller's action) or raises, and an     *)
(* exception is caught nowhere (no try around any gateway call).  When the  *)
(* navigate service is fly_route's primitive, the failed call is an         *)
(* invocation of the primitive all the same.                               *)
(***************************************************************************)
AtTelemetryCall == pc \in { 46, 51, 60, 65, 84 }

AtNavigateCall == pc \in { 48, 61 } \/ (pc = 119 /\ flight_function = "navigate")

\* a try around flight_function in fly_route: the failure of one waypoint is
\* swallowed and the loop goes on with the settle delay
unwinds_caught(r) ==
    IF r = "fly_route" THEN [pc |-> 120, outcome |-> "running"]
    ELSE [pc |-> 0, outcome |-> "raised"]

\* where an exception raised by a gateway call inside routine r ends up: no
\* frame between the call and the outside caller has a try statement for it
unwinds(r) == [pc |-> 0, outcome |-> "raised"]

get_telemetry_raises ==
    /\ AtTelemetryCall
    /\ trace' = Append(trace, Event("raise", "get_telemetry"))
    /\ pc' = unwinds(routine).pc /\ outcome' = unwinds(routine).outcome
    /\ UNCHANGED << routine, pollerVars, triggerVars, file, readerVars, playerVars, obs >>

navigate_raises ==
    /\ AtNavigateCall
    /\ trace' = Append(IF pc = 119 THEN Append(trace, FlightEvent) ELSE trace,
                       Event("raise", "navigate"))
    /\ pc' = unwinds(routine).pc /\ outcome' = unwinds(routine).outcome
    /\ UNCHANGED << routine, pollerVars, triggerVars, file, readerVars, playerVars, obs >>

Next ==
    \/ get_telemetry_raises \/ navigate_raises
    \/ call_takeoff \/ takeoff_46 \/ takeoff_48 \/ takeoff_50 \/ takeoff_51
    \/ takeoff_53 \/ takeoff_54
    \/ call_reach_point \/ reach_point_60 \/ reach_point_61 \/ reach_point_64
    \/ reach_point_65 \/ reach_point_68 \/ reach_point_69
    \/ call_create_route \/ create_route_73 \/ create_route_poll_stop
    \/ create_route_poll_add \/ create_route_sleep \/ create_route_84
    \/ create_route_85 \/ create_route_return
    \/ add_trigger_set \/ add_trigger_clear \/ stop_trigger_set \/ stop_trigger_clear
    \/ call_read_route \/ read_route_96 \/ read_route_98 \/ read_route_104
    \/ read_route_ValueError \/ read_route_111
    \/ call_fly_route \/ fly_route_115 \/ fly_route_116 \/ fly_route_119 \/ fly_route_120

Spec == Init /\ [][Next]_vars

(***************************************************************************)
(* Properties                                                              *)
(***************************************************************************)
Recorder == routine = "create_route"

\* C1 (recorder edge-triggering): one continuous hold of add_trigger never
\* gets more than one row however many ticks it lasts; between two rows a
\* poll has seen add_trigger cleared; a row is only written right after a
\* poll saw it set; and while the recorder waits for the release, exactly
\* one row has been written since the last release it saw.
C1_EdgeTriggered ==
    Recorder =>
        /\ obs.rows_in_hold <= 1
        /\ obs.rows_since_release <= 1
        /\ (pc \in { 84, 85 } => obs.add = "set")
        /\ (pc \in { 88, 90, 91 } => obs.add = "set" /\ obs.rows_since_release = 1)

\* add_trigger held over two whole ticks after a capture, one row written
C1_Witness ==
    /\ Recorder /\ pc = 87 /\ add_trigger /\ ~stop_trigger
    /\ toggles = 0
    /\ Len(trace) >= 3
    /\ trace[Len(trace)].op = "rate.sleep"
    /\ trace[Len(trace) - 1].op = "rate.sleep"
    /\ trace[Len(trace) - 2].op = "writerow"
    /\ Len(Ops("writerow")) = 1

\* C2 (recorder responsiveness): from the moment stop_trigger is set, and
\* for as long as it stays set, create_route makes at most one rate.sleep
\* call and executes at most 7 statements in all before it has ended; this
\* holds in the wait for a press and in the wait for the release alike.
C2_StopWithinOneTick ==
    (Recorder /\ stop_trigger) => obs.stop_sleeps <= 1 /\ obs.stop_steps <= 7

\* stop set during the release wait: one sleep later the return at line 90
C2_Witness ==
    /\ Recorder /\ pc = 90 /\ stop_trigger /\ add_trigger
    /\ obs.stop_sleeps = 1

Reaching == routine = "reach_point"

\* the distance of pose p to the target does not exceed the tolerance
Within(p) ==
    (p.x - target.x) * (p.x - target.x) + (p.y - target.y) * (p.y - target.y)
        + (p.z - target.z) * (p.z - target.z) <= tolerance * tolerance

\* C3 as stated (tolerance boundary): reach_point stops polling only on a
\* distance strictly less than the tolerance; at exactly the tolerance it
\* goes on polling.
C3_Original ==
    Reaching =>
        /\ (pc = 69 => delta < tolerance * tolerance)
        /\ (pc = 65 => delta >= tolerance * tolerance)

\* C3 amended: reach_point goes on polling exactly when the distance is
\* strictly greater than the tolerance; a distance equal to the tolerance,
\* like any smaller one, satisfies arrival.
C3_Boundary ==
    Reaching =>
        /\ (pc = 69 => delta <= tolerance * tolerance)
        /\ (pc = 65 => delta > tolerance * tolerance)

\* arrival on a polled pose exactly at the tolerance
C3_Witness ==
    /\ Reaching /\ pc = 69 /\ Ticks = 1
    /\ delta = tolerance * tolerance
    /\ trace[Len(trace) - 1] = Event("get_telemetry", telem)

\* the polled reads of a reach_point call follow the initial read and the
\* navigate command, events 1 and 2
PolledHits ==
    { i \in 3..Len(trace) : trace[i].op = "get_telemetry" /\ Within(trace[i].arg) }

AfterFirstHit ==
    LET first == CHOOSE i \in PolledHits : \A j \in PolledHits : i <= j
    IN  SubSeq(trace, first + 1, Len(trace))

\* C4 (arrival termination): after the first polled pose within tolerance
\* reach_point reads no further pose and sleeps at most once, and when it
\* returns it has slept exactly once since that pose.
C4_OneTickAfterArrival ==
    (Reaching /\ PolledHits # { }) =>
        /\ \A i \in 1..Len(AfterFirstHit) : AfterFirstHit[i].op = "rate.sleep"
        /\ Len(AfterFirstHit) <= 1
        /\ (outcome = "returned" => Len(AfterFirstHit) = 1)
        /\ outcome # "raised"

\* a call that polled twice: the first pose out of tolerance, the second in
C4_Witness ==
    /\ Reaching /\ outcome = "returned" /\ Ticks = 2
    /\ PolledHits # { }

Playing == routine = "fly_route"

Flights == Ops("flight_function")

Delays == Ops("time.sleep")

\* C5 (player sequencing): the invocations of the fly primitive made so far
\* carry the x and y of the first waypoints of the route, one invocation per
\* waypoint in route order, and a fly_route call that returns has made
\* exactly one invocation per waypoint.
C5_InOrder ==
    Playing =>
        /\ Len(Flights) <= Len(route)
        /\ \A i \in 1..Len(Flights) :
              Flights[i].arg.x = route[i].x /\ Flights[i].arg.y = route[i].y
        /\ (outcome = "returned" => Len(Flights) = Len(route))

\* a route of two different points flown to the end
C5_Witness ==
    /\ Playing /\ outcome = "returned"
    /\ Len(route) = 2 /\ route[1] # route[2]
    /\ Len(Flights) = 2

\* C6 as stated (settle delay placement): a fly_route call over N >= 1
\* points that returns has observed N - 1 settle delays, none after the last
\* invocation.
C6_Original ==
    (Playing /\ outcome = "returned" /\ Len(route) >= 1) =>
        /\ Len(Delays) = Len(route) - 1
        /\ trace[Len(trace)].op # "time.sleep"

\* C6 amended: the settle delay is observed after every invocation of the
\* fly primitive, the last one included, and never before the first: N
\* delays for N points, each invocation made only when every earlier one has
\* been followed by its delay.
C6_DelayAfterEach ==
    Playing =>
        /\ Len(Delays) <= Len(Flights)
        /\ Len(Flights) <= Len(Delays) + 1
        /\ (pc \in { 115, 116, 119 } => Len(Delays) = Len(Flights))
        /\ (outcome = "returned" => Len(Delays) = Len(route))
        /\ (trace # << >> => trace[1].op = "flight_function")

\* two points flown, two delays, the second one after the last invocation
C6_Witness ==
    /\ Playing /\ outcome = "returned"
    /\ Len(route) = 2 /\ Len(Delays) = 2
    /\ trace[Len(trace)].op = "time.sleep"

\* C7 as stated (altitude override): the z passed to the fly primitive is the
\* override when the override is finite, and the waypoint's stored z when
\* the override is NaN or infinite.
C7_Original ==
    Playing =>
        \A i \in 1..Len(Flights) :
            Flights[i].arg.z = IF ~isnan(z) /\ ~isinf(z) THEN z ELSE route[i].z

\* C7 amended: the z passed to the fly primitive is the override whenever
\* the override is not NaN, an infinite override included, and the
\* waypoint's stored z only when the override is NaN.
C7_OverrideUnlessNaN ==
    Playing =>
        \A i \in 1..Len(Flights) :
            Flights[i].arg.z = IF z = NaN THEN route[i].z ELSE z

\* two waypoints of different stored altitude, both flown at the override
C7_Witness ==
    /\ Playing /\ Len(Flights) = 2
    /\ z = 5 /\ route[1].z # route[2].z
    /\ Flights[1].arg.z = 5 /\ Flights[2].arg.z = 5

Reading == routine = "read_route"

Captured == Ops("get_telemetry")

\* C8 (route round trip): when read_route reads the file a create_route call
\* of this run wrote, it returns a list with one point per captured pose,
\* equal to the captured poses in the order of capture.
C8_RoundTrip ==
    (Reading /\ Ops("open") # << >> /\ outcome # "running") =>
        /\ outcome = "returned"
        /\ result.tag = "list"
        /\ Len(result.val) = Len(Captured)
        /\ \A i \in 1..Len(Captured) : result.val[i] = Captured[i].arg

\* two different poses, one with a negative coordinate, written and read back
C8_Witness ==
    /\ Reading /\ outcome = "returned" /\ Ops("open") # << >>
    /\ Len(result.val) = 2
    /\ result.val[1] = Point(1, -1, 2) /\ result.val[2] = Point(3, 0, 1)

Commands == Ops("navigate")

\* C9 (single motion command): a takeoff or reach_point call never has more
\* than one navigate command to its name; once it is past line 48 / 61, and
\* so in every round of the polling loop and at its return, it has issued
\* exactly one, as the second gateway call after the initial pose read; the
\* command asks for auto-arm in takeoff and only there.  Within fly_route
\* every reach_point call has issued exactly one command once in its loop.
C9_OneCommand ==
    /\ routine \in { "takeoff", "reach_point" } =>
          /\ Len(Commands) <= 1
          /\ (pc \in { 50, 51, 53, 54, 64, 65, 68, 69 } \/ outcome = "returned") =>
                /\ Len(Commands) = 1
                /\ trace[1].op = "get_telemetry" /\ trace[2].op = "navigate"
          /\ \A i \in 1..Len(Commands) :
                Commands[i].arg.auto_arm = (routine = "takeoff")
    /\ (Playing /\ flight_function = "reach_point") =>
          /\ Len(Commands) <= Len(Flights)
          /\ (pc \in { 64, 65, 68, 69, 115, 116, 120 } => Len(Commands) = Len(Flights))
          /\ \A i \in 1..Len(Commands) : ~Commands[i].arg.auto_arm

\* a reach_point call that returned without entering the loop, one command
C9_Witness ==
    /\ Reaching /\ outcome = "returned" /\ Ticks = 0
    /\ Len(Commands) = 1 /\ Len(trace) = 2

\* C10 (missing route file): a read_route call on a file that cannot be
\* opened does not raise and returns None; a call that returns after
\* opening the file returns a list.
C10_MissingFile ==
    Reading =>
        /\ (~file.exists => outcome # "raised")
        /\ (outcome = "returned" =>
              IF file.exists THEN result.tag = "list" ELSE result = None)

\* the missing file read: None returned
C10_Witness ==
    /\ Reading /\ outcome = "returned" /\ ~file.exists
    /\ result = None

GatewayOps == { "get_telemetry", "navigate", "flight_function" }

GatewayFailures ==
    { i \in 1..Len(trace) :
        trace[i].op = "raise" /\ trace[i].arg \in { "get_telemetry", "navigate" } }

\* C11 (gateway failure propagation): when a gateway call has raised, the
\* routine in progress (takeoff, reach_point, create_route or fly_route) has
\* ended with that failure at once: it is no longer running, it did not
\* return normally, and nothing was called after the failing call - no
\* gateway call, no sleep, no row, and in fly_route no invocation of the
\* primitive for a later waypoint.
C11_FailurePropagates ==
    \A i \in GatewayFailures :
        /\ i = Len(trace)
        /\ routine \in { "takeoff", "reach_point", "create_route", "fly_route" } =>
              pc = 0 /\ outcome = "raised"
        /\ Playing => Len(Flights) = idx /\ idx <= Len(route)

\* fly_route over two points whose first maneuver failed while polling
C11_Witness ==
    /\ Playing /\ outcome = "raised" /\ Len(route) = 2
    /\ flight_function = "reach_point"
    /\ Len(Flights) = 1 /\ Ticks = 1
    /\ trace[Len(trace)] = Event("raise", "get_telemetry")

Indices(o) == SelectSeq([i \in 1..Len(trace) |-> i], LAMBDA i : trace[i].op = o)

\* where in the trace the maneuver in progress began: its invocation by
\* fly_route, or the start of the trace for a direct reach_point call
ManeuverStart ==
    IF Indices("flight_function") = << >> THEN 0
    ELSE Indices("flight_function")[Len(Indices("flight_function"))]

ManeuverEvents(o) ==
    { i \in (ManeuverStart + 1)..Len(trace) : trace[i].op = o }

DefaultPlaying == Playing /\ flight_function = "reach_point" /\ Flights # << >>

\* C12 (stalled arrival): as long as every pose read for the maneuver in
\* progress is farther than the tolerance from its target, reach_point has
\* not returned and has issued at most one motion command for it; fly_route
\* with reach_point as primitive is then still at that waypoint and has
\* issued no motion command for a later one.
C12_Stalled ==
    ((Reaching \/ DefaultPlaying)
        /\ \A i \in ManeuverEvents("get_telemetry") : ~Within(trace[i].arg)) =>
        /\ pc \notin { 69, 120 }
        /\ outcome # "returned"
        /\ Cardinality(ManeuverEvents("navigate")) <= 1
        /\ DefaultPlaying =>
              /\ idx = Len(Flights)
              /\ Len(Commands) <= Len(Flights)
              /\ \A i \in 1..Len(Commands) :
                    /\ Commands[i].arg.x = route[i].x
                    /\ Commands[i].arg.y = route[i].y

\* fly_route over two points, two ticks spent on the first without a pose
\* within tolerance
C12_Witness ==
    /\ DefaultPlaying /\ Len(route) = 2 /\ Len(Flights) = 1
    /\ Ticks = 2 /\ pc = 64
    /\ Cardinality(ManeuverEvents("get_telemetry")) = 3
    /\ \A i \in ManeuverEvents("get_telemetry") : ~Within(trace[i].arg)

\* pose p is within the default tolerance of the point a maneuver was
\* invoked with
Arrived(p, q) ==
    (p.x - q.x) * (p.x - q.x) + (p.y - q.y) * (p.y - q.y)
        + (p.z - q.z) * (p.z - q.z) <= TOLERANCE * TOLERANCE

Between(a, b, o) == { i \in (a + 1)..(b - 1) : trace[i].op = o }

\* C13 (strictly sequential playback): in fly_route with reach_point as
\* primitive, between the invocation for waypoint k and the invocation for
\* waypoint k+1 lie exactly one motion command, the one for waypoint k, and
\* after it a pose read within tolerance of waypoint k; the maneuver in
\* progress has at most one motion command, so no command for a waypoint is
\* issued while an earlier maneuver is still polling.
C13_Sequential ==
    (Playing /\ flight_function = "reach_point") =>
        LET at == Indices("flight_function")
        IN  /\ \A k \in 1..(Len(at) - 1) :
                  /\ Cardinality(Between(at[k], at[k + 1], "navigate")) = 1
                  /\ \E n \in Between(at[k], at[k + 1], "navigate") :
                        /\ trace[n].arg.x = trace[at[k]].arg.x
                        /\ trace[n].arg.y = trace[at[k]].arg.y
                        /\ trace[n].arg.z = trace[at[k]].arg.z
                  /\ \E i \in Between(at[k], at[k + 1], "get_telemetry") :
                        Arrived(trace[i].arg, trace[at[k]].arg)
            /\ Cardinality(ManeuverEvents("navigate")) <= 1
            /\ (at = << >> => Commands = << >>)

\* the second waypoint invoked after a polled pose within tolerance of the
\* first
C13_Witness ==
    /\ Playing /\ flight_function = "reach_point"
    /\ Len(Flights) = 2 /\ Ticks >= 1
    /\ route[1] # route[2]
    /\ Len(Commands) = 2

FileRows == IF file.exists THEN csv_reader(file.data) ELSE << >>

\* C14 (recorded points are real samples): while create_route runs and
\* after it has ended, the rows of the file, read as numbers, are the poses
\* the get_telemetry calls of create_route returned, in the order of the
\* calls, one row per call (the row of the latest call still to be written
\* at line 85), and every row was written right after the call it records.
C14_RowsAreSamples ==
    Recorder =>
        /\ Len(FileRows) = Len(Captured) - (IF pc = 85 THEN 1 ELSE 0)
        /\ \A i \in 1..Len(FileRows) :
              /\ Len(FileRows[i]) = 3
              /\ row_point(FileRows[i]) = Captured[i].arg
        /\ \A i \in 1..Len(trace) :
              trace[i].op = "writerow" =>
                  /\ i > 1
                  /\ trace[i - 1].op = "get_telemetry"
                  /\ trace[i - 1].arg = trace[i].arg

\* two captures of different poses, two rows
C14_Witness ==
    /\ Recorder /\ outcome = "returned"
    /\ Len(FileRows) = 2
    /\ Captured[1].arg = Point(0, 0, 4) /\ Captured[2].arg = Point(1, -1, 2)

\* a record that is not three numeric fields
Malformed(row) == Len(row) # 3 \/ \E i \in 1..Len(row) : ~float_ok(row[i])

BadRows == { i \in 1..Len(FileRows) : Malformed(FileRows[i]) }

\* C15 (malformed route record): when read_route has ended on a file that
\* could be opened, it has failed with a parse error exactly when some
\* record of the file is not three numeric fields; then no route was
\* returned, and the points read are those of the records before the first
\* such record.  Otherwise the list of all records' points was returned.
C15_ParseFailure ==
    Reading /\ outcome \in { "returned", "raised" } /\ file.exists =>
        IF BadRows # { }
        THEN /\ outcome = "raised"
             /\ result = Unset
             /\ trace # << >>
             /\ trace[Len(trace)] = Event("raise", "ValueError")
             /\ \A i \in BadRows : Len(imported_points) < i
             /\ Len(imported_points) + 1 \in BadRows
        ELSE /\ outcome = "returned"
             /\ result.tag = "list"
             /\ Len(result.val) = Len(FileRows)

\* a good record, then an empty one
C15_Witness ==
    /\ Reading /\ outcome = "raised" /\ file.exists
    /\ Len(FileRows) = 2
    /\ BadRows = { 2 }
    /\ imported_points = << Point(10, 20, 30) >>

TakingOff == routine = "takeoff"

\* C16 (takeoff reports success only after a real climb): when takeoff has
\* returned, the most recent altitude sample is at least
\* start.z + height - tolerance.  The code measures the climb as
\* abs(z - start.z), so a descent by the height ends the wait as well.
C16_RealClimb ==
    TakingOff /\ outcome = "returned" =>
        LET samples == SelectSeq(trace, LAMBDA e : e.op = "get_telemetry")
        IN  samples[Len(samples)].arg.z >= start.z + height - tolerance

\* C17 as stated (no capture after stop): while stop_trigger stays set, no
\* point is written after the controller set it.
C17_Original == Recorder /\ stop_trigger => obs.stop_rows = 0

\* C17 (no capture after stop is observed): once a poll of create_route has
\* read stop_trigger set, no point is written and create_route is on its
\* way out; between the controller's set and that poll at most one point is
\* written (add_trigger read set at line 79 before stop_trigger is polled
\* again).
C17_NoCaptureAfterObserved ==
    Recorder /\ stop_trigger =>
        /\ obs.stop_rows <= 1
        /\ obs.stop_seen => obs.seen_rows = 0 /\ pc \in { 0, 82, 90, 92 }
        /\ obs.stop_seen /\ pc = 0 => outcome = "returned"

\* both triggers set between two polls of the wait loop: one point is written
\* with stop_trigger set, then stop_trigger is observed
C17_Witness ==
    /\ Recorder /\ stop_trigger /\ add_trigger
    /\ toggles = 2 /\ Ticks = 1
    /\ obs.stop_rows = 1 /\ obs.stop_seen /\ outcome = "returned"

\* C18 as stated (no press held for a tick is lost): with stop_trigger
\* clear, a press held across a whole poll tick (two wake-ups of the
\* recorder fall in the hold) has one point recorded for it.
C18_Original ==
    Recording /\ ~stop_trigger /\ add_trigger /\ obs.hold_ticks >= 2 =>
        obs.rows_in_hold = 1

\* C18 (no observed press held for a tick is lost): the same, for a press
\* made when the latest poll of add_trigger had not read it set (the release
\* before the press was observed, or no press was observed yet).
C18_ObservedPress ==
    Recording /\ ~stop_trigger /\ add_trigger /\ obs.hold_ticks >= 2 /\ obs.press_ok =>
        obs.rows_in_hold = 1

\* a second press after a release shorter than a tick that line 87 observed
C18_Witness ==
    /\ Recording /\ ~stop_trigger /\ add_trigger
    /\ obs.hold_ticks >= 2 /\ obs.press_ok
    /\ toggles >= 2 /\ Ticks = 2
    /\ obs.rows_in_hold = 1
    /\ Len(Captured) = 2

====
